---- MODULE Spec2Model ----
(***************************************************************************)
(* Model of the libuvc capture backend UVCCaptureDevice                    *)
(* (src/backends/capture/uvc_backend.rs): the stream lifecycle kept in     *)
(* the self-referencing struct (stream_handle / active_stream storage and  *)
(* their "init" flags), the frame callback that pushes into the flume      *)
(* channel, and the consumer operations that drain it.                     *)
(*                                                                         *)
(* A StreamHandle and an ActiveStream are hardware resources.  The model   *)
(* keeps, next to the struct's fields, the set of resources that were      *)
(* constructed and not yet dropped (liveHandles, liveStreams); a resource  *)
(* leaves its set only where the code calls std::mem::drop on it.          *)
(***************************************************************************)
EXTENDS Integers, Sequences, FiniteSets, TLC

\* ---------------------------------------------------------------- bounds
\* number of StreamHandles the device negotiates in one run
MaxHandles == 2
\* number of frames the hardware delivers in one run
MaxFrames == 2
\* largest width and height of the resolutions get_frame is tried on
MaxDim == 2
\* longest buffer get_frame is tried on
MaxLen == 13
\* number of devices libuvc lists
MaxDevices == 2

\* ------------------------------------------------------------- constants
\* bytes per pixel of the RGB buffer (ImageBuffer<Rgb<u8>, Vec<u8>>)
Channels == 3

\* CameraFormat values (width, height, FrameFormat, framerate), scaled down
FormatA == [width |-> 2, height |-> 1, format |-> "MJPEG", fps |-> 15]
FormatB == [width |-> 1, height |-> 1, format |-> "YUYV", fps |-> 30]
Formats == {FormatA, FormatB}

\* content of a MaybeUninit storage that holds no value
Uninit == [id |-> 0, fmt |-> FormatA]
\* absence of a frame in a result
NoFrame == [stream |-> 0, seq |-> 0, len |-> 0]

\* impl From<CameraFormat> for StreamFormat: field by field
StreamFormat(cf) ==
    [width |-> cf.width, height |-> cf.height, fps |-> cf.fps, format |-> cf.format]

\* length of the buffer frame.to_rgb().to_bytes() of a stream negotiated as sf
FrameLen(sf) == sf.width * sf.height * Channels

VARIABLES
    camera_format,       \* CameraFormat field
    stream_handle_init,  \* Cell<bool>
    active_stream_init,  \* Cell<bool>
    stream_handle,       \* content of the stream_handle storage (Uninit or a handle)
    active_stream,       \* content of the active_stream storage (Uninit or a stream)
    liveHandles,         \* StreamHandles constructed and not dropped
    liveStreams,         \* ActiveStreams constructed and not dropped
    chan,                \* flume channel frame_sender -> frame_receiver
    inflight,            \* callback invocations that converted a frame and have not sent it
    nextId,              \* id of the next StreamHandle the hardware hands out
    produced,            \* frames delivered by the hardware so far
    lastOp,              \* the step taken last
    lastRes              \* what the operation taken last returned

vars == <<camera_format, stream_handle_init, active_stream_init, stream_handle,
          active_stream, liveHandles, liveStreams, chan, inflight, nextId,
          produced, lastOp, lastRes>>

\* ------------------------------------------------------------- results
Result(kind, why, value, frame) ==
    [kind |-> kind, why |-> why, value |-> value, frame |-> frame]

Ok == Result("Ok", "none", Uninit.fmt, NoFrame)

\* NokhwaError::CouldntOpenStream(why)
CouldntOpenStream(why) == Result("CouldntOpenStream", why, Uninit.fmt, NoFrame)

\* NokhwaError::CouldntSetProperty { property: "CameraFormat", value, error }
CouldntSetProperty(value, why) == Result("CouldntSetProperty", why, value, NoFrame)

\* NokhwaError::CouldntCaptureFrame("Please call `open_stream()` first!")
NotStreaming == Result("NotStreaming", "none", Uninit.fmt, NoFrame)

\* NokhwaError::CouldntCaptureFrame("Too fast!")
TooFast == Result("TooFast", "none", Uninit.fmt, NoFrame)

\* NokhwaError::CouldntCaptureFrame("ImageBuffer too small! ...")
FrameSizeMismatch == Result("FrameSizeMismatch", "none", Uninit.fmt, NoFrame)

OkFrame(f) == Result("Ok", "none", Uninit.fmt, f)

\* NokhwaError::CouldntOpenDevice(why)
CouldntOpenDevice(why) == Result("CouldntOpenDevice", why, Uninit.fmt, NoFrame)

\* unwrap() on an Err: the thread panics, no value is returned
Panic(why) == Result("Panic", why, Uninit.fmt, NoFrame)

\* ------------------------------------------------- the struct as a value
\* the fields of the device and the hardware resources, as one record
Fields ==
    [camera_format |-> camera_format,
     stream_handle_init |-> stream_handle_init,
     active_stream_init |-> active_stream_init,
     stream_handle |-> stream_handle,
     active_stream |-> active_stream,
     liveHandles |-> liveHandles,
     liveStreams |-> liveStreams,
     chan |-> chan,
     inflight |-> inflight,
     nextId |-> nextId]

\* assign a record of fields to the next state
Store(f) ==
    /\ camera_format' = f.camera_format
    /\ stream_handle_init' = f.stream_handle_init
    /\ active_stream_init' = f.active_stream_init
    /\ stream_handle' = f.stream_handle
    /\ active_stream' = f.active_stream
    /\ liveHandles' = f.liveHandles
    /\ liveStreams' = f.liveStreams
    /\ chan' = f.chan
    /\ inflight' = f.inflight
    /\ nextId' = f.nextId

\* frames of stream id that a callback invocation still holds, oldest first
RECURSIVE PendingOf(_, _)
PendingOf(fl, id) ==
    IF \A fr \in fl : fr.stream # id THEN <<>>
    ELSE LET fr == CHOOSE x \in fl : x.stream = id /\ \A y \in fl : y.stream = id => x.seq <= y.seq
         IN <<fr>> \o PendingOf(fl \ {fr}, id)

\* if active_stream_init { drop(active_stream.replace(uninit).assume_init()); flag = false }
\* Dropping an ActiveStream stops the stream: the driver joins the callback
\* thread, so an invocation in progress sends its frame before the drop returns.
DropActiveStream(f) ==
    IF f.active_stream_init
    THEN [f EXCEPT !.liveStreams = @ \ {f.active_stream},
                   !.chan = @ \o PendingOf(f.inflight, f.active_stream.id),
                   !.inflight = {fr \in @ : fr.stream # f.active_stream.id},
                   !.active_stream = Uninit,
                   !.active_stream_init = FALSE]
    ELSE f

\* if stream_handle_init { drop(stream_handle.replace(uninit).assume_init()); flag = false }
DropStreamHandle(f) ==
    IF f.stream_handle_init
    THEN [f EXCEPT !.liveHandles = @ \ {f.stream_handle},
                   !.stream_handle = Uninit,
                   !.stream_handle_init = FALSE]
    ELSE f

\* the teardown block: the ActiveStream first, the StreamHandle second
Teardown(f) == DropStreamHandle(DropActiveStream(f))

\* get_stream_handle_with_format(stream_format) returned Ok(streamh):
\* the new handle is written over the storage and the flag is set
StoreStreamHandle(f, sf) ==
    LET streamh == [id |-> f.nextId, fmt |-> sf] IN
    [f EXCEPT !.stream_handle = streamh,
              !.stream_handle_init = TRUE,
              !.liveHandles = @ \cup {streamh},
              !.nextId = @ + 1]

\* start_stream returned Ok(active): the stream is written over the storage
\* (MaybeUninit::new over the old content, which is not dropped)
StoreActiveStream(f) ==
    LET active == [id |-> f.stream_handle.id, fmt |-> f.stream_handle.fmt] IN
    [f EXCEPT !.active_stream = active,
              !.liveStreams = @ \cup {active}]

\* open_stream on the fields f; negOk and startOk are the hardware's answers
\* to the negotiation and to start_stream.  Returns the fields and the result.
\* The try_borrow_mut arm and the null-pointer arm cannot be taken: with_mut
\* holds the only borrow of the RefCell and the pointer is that of a Box.
\* active_stream_init is left as the teardown left it: no line sets it.
OpenStream(f, negOk, startOk) ==
    LET stream_format == StreamFormat(f.camera_format)
        torn == Teardown(f)
    IN  IF ~negOk
        THEN [fields |-> torn, ret |-> CouldntOpenStream("negotiation")]
        ELSE LET negotiated == StoreStreamHandle(torn, stream_format) IN
             IF ~startOk
             THEN [fields |-> negotiated, ret |-> CouldntOpenStream("start")]
             ELSE [fields |-> StoreActiveStream(negotiated), ret |-> Ok]

Init ==
    /\ camera_format \in Formats
    /\ stream_handle_init = FALSE
    /\ active_stream_init = FALSE
    /\ stream_handle = Uninit
    /\ active_stream = Uninit
    /\ liveHandles = {}
    /\ liveStreams = {}
    /\ chan = <<>>
    /\ inflight = {}
    /\ nextId = 1
    /\ produced = 0
    /\ lastOp = "create"
    /\ lastRes = Ok

\* ---------------------------------------------------------------- actions
\* fn is_stream_open(&self) -> bool
is_stream_open == active_stream_init

\* a &self query: it returns ret and writes no field
Query(op, ret) ==
    /\ lastOp' = op
    /\ lastRes' = ret
    /\ UNCHANGED <<camera_format, stream_handle_init, active_stream_init,
                   stream_handle, active_stream, liveHandles, liveStreams,
                   chan, inflight, nextId, produced>>

\* a value of the camera format handed back by a query
Value(v) == Result("Ok", "none", v, NoFrame)

\* borrow_camera_info().clone(): the info fixed at create()
get_info == Query("get_info", Ok)

get_camera_format == Query("get_camera_format", Value(camera_format))

get_resolution ==
    Query("get_resolution",
          Value([width |-> camera_format.width, height |-> camera_format.height,
                 format |-> "", fps |-> 0]))

get_framerate ==
    Query("get_framerate",
          Value([width |-> 0, height |-> 0, format |-> "", fps |-> camera_format.fps]))

get_frameformat ==
    Query("get_frameformat",
          Value([width |-> 0, height |-> 0, format |-> camera_format.format, fps |-> 0]))

is_stream_open_query ==
    Query("is_stream_open",
          Result(IF is_stream_open THEN "true" ELSE "false", "none", Uninit.fmt, NoFrame))

open_stream(negOk, startOk) ==
    /\ nextId <= MaxHandles
    /\ LET r == OpenStream(Fields, negOk, startOk) IN
        /\ Store(r.fields)
        /\ lastRes' = r.ret
    /\ lastOp' = "open_stream"
    /\ UNCHANGED produced

\* set_camera_format without the "revert" arm
set_camera_format_NoRevert(new_fmt, negOk, startOk) ==
    /\ stream_handle_init => nextId <= MaxHandles
    /\ LET applied == [Fields EXCEPT !.camera_format = new_fmt]
           is_streamh_some == stream_handle_init
       IN  IF is_streamh_some
           THEN LET r == OpenStream(applied, negOk, startOk) IN
                /\ Store(r.fields)
                /\ lastRes' = IF r.ret.kind = "Ok" THEN Ok
                              ELSE CouldntSetProperty(new_fmt, r.ret.why)
           ELSE /\ Store(applied)
                /\ lastRes' = Ok
    /\ lastOp' = "set_camera_format"
    /\ UNCHANGED produced

\* set_camera_format that re-opens whether or not a stream handle is held
set_camera_format_AlwaysReopen(new_fmt, negOk, startOk) ==
    /\ nextId <= MaxHandles
    /\ LET prev_fmt == camera_format
           applied == [Fields EXCEPT !.camera_format = new_fmt]
           r == OpenStream(applied, negOk, startOk)
       IN  IF r.ret.kind = "Ok"
           THEN /\ Store(r.fields)
                /\ lastRes' = Ok
           ELSE /\ Store([r.fields EXCEPT !.camera_format = prev_fmt])
                /\ lastRes' = CouldntSetProperty(new_fmt, r.ret.why)
    /\ lastOp' = "set_camera_format"
    /\ UNCHANGED produced

set_camera_format(new_fmt, negOk, startOk) ==
    /\ stream_handle_init => nextId <= MaxHandles
    /\ LET prev_fmt == camera_format
           applied == [Fields EXCEPT !.camera_format = new_fmt]
           is_streamh_some == stream_handle_init
       IN  IF is_streamh_some
           THEN LET r == OpenStream(applied, negOk, startOk) IN
                IF r.ret.kind = "Ok"
                THEN /\ Store(r.fields)
                     /\ lastRes' = Ok
                ELSE /\ Store([r.fields EXCEPT !.camera_format = prev_fmt])
                     /\ lastRes' = CouldntSetProperty(new_fmt, r.ret.why)
           ELSE /\ Store(applied)
                /\ lastRes' = Ok
    /\ lastOp' = "set_camera_format"
    /\ UNCHANGED produced

stop_stream ==
    /\ Store(Teardown(Fields))
    /\ lastRes' = Ok
    /\ lastOp' = "stop_stream"
    /\ UNCHANGED produced

\* get_frame_raw without its opening assertion on active_stream_init
GetFrameRaw_NoAssert(init, ch) ==
    IF ch = <<>>
    THEN [ret |-> TooFast, chan |-> <<>>]
    ELSE [ret |-> OkFrame(ch[Len(ch)]), chan |-> <<>>]

\* the result of get_frame_raw and the channel it leaves
GetFrameRaw(init, ch) ==
    IF ~init
    THEN [ret |-> NotStreaming, chan |-> ch]
    ELSE IF ch = <<>>
         THEN [ret |-> TooFast, chan |-> <<>>]
         ELSE [ret |-> OkFrame(ch[Len(ch)]), chan |-> <<>>]

\* get_frame_raw that gives the stream handle up when it has no stream
get_frame_raw_GivesUp ==
    /\ LET r == GetFrameRaw(active_stream_init, chan) IN
        /\ chan' = r.chan
        /\ lastRes' = r.ret
        /\ stream_handle_init' = (stream_handle_init /\ r.ret # NotStreaming)
    /\ lastOp' = "get_frame_raw"
    /\ UNCHANGED <<camera_format, active_stream_init,
                   stream_handle, active_stream, liveHandles, liveStreams,
                   inflight, nextId, produced>>

get_frame_raw ==
    /\ LET r == GetFrameRaw(active_stream_init, chan) IN
        /\ chan' = r.chan
        /\ lastRes' = r.ret
    /\ lastOp' = "get_frame_raw"
    /\ UNCHANGED <<camera_format, stream_handle_init, active_stream_init,
                   stream_handle, active_stream, liveHandles, liveStreams,
                   inflight, nextId, produced>>

\* from_vec that takes only a buffer of exactly width * height * 3 bytes
FromVec_Exact(width, height, len) == width * height * Channels = len

\* ImageBuffer::from_vec(width, height, data): Some iff the buffer holds
\* at least width * height * 3 bytes
FromVec(width, height, len) == width * height * Channels <= len

\* get_frame after get_frame_raw returned ret: an error is passed on, a
\* buffer is reshaped with the resolution of the current camera format
Reshape(cf, ret) ==
    IF ret.kind # "Ok" THEN ret
    ELSE IF FromVec(cf.width, cf.height, ret.frame.len)
         THEN ret
         ELSE FrameSizeMismatch

get_frame ==
    /\ LET r == GetFrameRaw(active_stream_init, chan) IN
        /\ chan' = r.chan
        /\ lastRes' = Reshape(camera_format, r.ret)
    /\ lastOp' = "get_frame"
    /\ UNCHANGED <<camera_format, stream_handle_init, active_stream_init,
                   stream_handle, active_stream, liveHandles, liveStreams,
                   inflight, nextId, produced>>

\* the driver invokes the callback of a running stream with a hardware frame;
\* the callback converts it: frame.to_rgb().unwrap().to_bytes().to_vec()
frame_callback_convert(s) ==
    /\ s \in liveStreams
    /\ produced < MaxFrames
    /\ \A fr \in inflight : fr.stream # s.id
    /\ produced' = produced + 1
    /\ inflight' = inflight \cup
                     {[stream |-> s.id, seq |-> produced + 1, len |-> FrameLen(s.fmt)]}
    /\ lastOp' = "frame_callback_convert"
    /\ UNCHANGED <<camera_format, stream_handle_init, active_stream_init,
                   stream_handle, active_stream, liveHandles, liveStreams,
                   chan, nextId, lastRes>>

\* frame_sender.send(vec_frame): the channel is unbounded and its receiver
\* lives in the same struct, so the send appends
frame_callback_send(fr) ==
    /\ fr \in inflight
    /\ chan' = Append(chan, fr)
    /\ inflight' = inflight \ {fr}
    /\ lastOp' = "frame_callback_send"
    /\ UNCHANGED <<camera_format, stream_handle_init, active_stream_init,
                   stream_handle, active_stream, liveHandles, liveStreams,
                   nextId, produced, lastRes>>

Next ==
    \/ \E negOk \in BOOLEAN, startOk \in BOOLEAN : open_stream(negOk, startOk)
    \/ \E new_fmt \in Formats, negOk \in BOOLEAN, startOk \in BOOLEAN :
          set_camera_format(new_fmt, negOk, startOk)
    \/ stop_stream
    \/ get_frame_raw
    \/ get_frame
    \/ get_info
    \/ get_camera_format
    \/ get_resolution
    \/ get_framerate
    \/ get_frameformat
    \/ is_stream_open_query
    \/ \E s \in liveStreams : frame_callback_convert(s)
    \/ \E fr \in inflight : frame_callback_send(fr)

Spec == Init /\ [][Next]_vars

\* the consumer keeps polling and the driver thread keeps running the
\* callback of every stream that has not been stopped
Fairness ==
    /\ WF_vars(get_frame_raw)
    /\ WF_vars(\E s \in liveStreams : frame_callback_convert(s))
    /\ WF_vars(\E fr \in inflight : frame_callback_send(fr))

SpecLive == Init /\ [][Next]_vars /\ Fairness

\* ------------------------------------------------------------ vocabulary
\* the lifecycle states of the device, by the resources that exist
StreamHandleExists == stream_handle # Uninit /\ stream_handle \in liveHandles
ActiveStreamExists ==
    /\ active_stream # Uninit
    /\ active_stream \in liveStreams
    /\ active_stream.id = stream_handle.id
Idle == liveHandles = {} /\ liveStreams = {}
Streaming == StreamHandleExists /\ ActiveStreamExists

TypeOK ==
    /\ camera_format \in Formats
    /\ stream_handle_init \in BOOLEAN
    /\ active_stream_init \in BOOLEAN
    /\ nextId \in 1..(MaxHandles + 1)
    /\ produced \in 0..MaxFrames
    /\ Len(chan) <= MaxFrames

\* -------------------------------------------- get_frame on given buffers
\* The reshaping step of get_frame as a function of the buffer that
\* get_frame_raw handed over and of the current resolution: the buffer
\* lengths and the resolutions are drawn from bounded sets, the stream
\* fields play no part.
ImageFormats ==
    [width : 1..MaxDim, height : 1..MaxDim, format : {"MJPEG", "YUYV"}, fps : {15}]

InitImage ==
    /\ camera_format \in ImageFormats
    /\ stream_handle_init = FALSE
    /\ active_stream_init = FALSE
    /\ stream_handle = Uninit
    /\ active_stream = Uninit
    /\ liveHandles = {}
    /\ liveStreams = {}
    /\ chan = <<>>
    /\ inflight = {}
    /\ nextId = 1
    /\ produced = 0
    /\ lastOp = "get_frame_raw"
    /\ \E len \in 0..MaxLen :
          lastRes = OkFrame([stream |-> 1, seq |-> 1, len |-> len])

\* lines 367-380 of get_frame, applied to the buffer in lastRes
get_frame_reshape ==
    /\ lastOp = "get_frame_raw"
    /\ lastRes.kind = "Ok"
    /\ lastRes' = Reshape(camera_format, lastRes)
    /\ lastOp' = "get_frame"
    /\ UNCHANGED <<camera_format, stream_handle_init, active_stream_init,
                   stream_handle, active_stream, liveHandles, liveStreams,
                   chan, inflight, nextId, produced>>

NextImage == get_frame_reshape

SpecImage == InitImage /\ [][NextImage]_vars

\* ------------------------------------------------------------- create
\* device descriptors as libuvc reports them
Descriptors == [vendor_id : 1..2, product_id : 1..2, serial : {"none", "sn"}]

\* the device lists context.devices() can return
DeviceLists == UNION {[1..n -> Descriptors] : n \in 0..MaxDevices}

\* what the hardware layer answers during one create(): whether
\* Context::new, devices(), description(), find_device and open succeed,
\* and the devices that are listed
Hardware ==
    [ctxOk : BOOLEAN, listOk : BOOLEAN, descOk : BOOLEAN, findOk : BOOLEAN,
     openOk : BOOLEAN, devices : DeviceLists]

\* context.find_device(vendor, product, serial): some listed device has that
\* vendor id and product id and, when a serial is given, that serial
FindDevice(hw, vendor, product, serial) ==
    /\ hw.findOk
    /\ \E i \in 1..Len(hw.devices) :
          /\ hw.devices[i].vendor_id = vendor
          /\ hw.devices[i].product_id = product
          /\ serial # "none" => hw.devices[i].serial = serial

\* create() with nth(index) unwrapped instead of matched
Create_IndexUnwrap(index, cam_fmt, hw) ==
    IF ~hw.ctxOk THEN [ret |-> CouldntOpenDevice("context"), camera_format |-> Uninit.fmt]
    ELSE IF ~hw.listOk THEN [ret |-> CouldntOpenDevice("devices"), camera_format |-> Uninit.fmt]
    ELSE IF index + 1 > Len(hw.devices)
         THEN [ret |-> Panic("index"), camera_format |-> Uninit.fmt]
    ELSE [ret |-> Ok, camera_format |-> Uninit.fmt]

\* UVCCaptureDevice::create(index, cam_fmt) against the hardware answers hw;
\* index counts from 0, cam_fmt is <<>> for None and <<f>> for Some(f).
\* The ids handed to find_device are taken from the descriptor crosswise:
\* vendor_id = Some(product_id), product_id = Some(vendor_id).
Create(index, cam_fmt, hw) ==
    IF ~hw.ctxOk THEN [ret |-> CouldntOpenDevice("context"), camera_format |-> Uninit.fmt]
    ELSE IF ~hw.listOk THEN [ret |-> CouldntOpenDevice("devices"), camera_format |-> Uninit.fmt]
    ELSE IF index + 1 > Len(hw.devices)
         THEN [ret |-> CouldntOpenDevice("index"), camera_format |-> Uninit.fmt]
    ELSE IF ~hw.descOk
         THEN [ret |-> CouldntOpenDevice("description"), camera_format |-> Uninit.fmt]
    ELSE LET device_desc == hw.devices[index + 1]
             vendor_id == device_desc.product_id
             product_id == device_desc.vendor_id
             serial == device_desc.serial
             camera_format_new == IF cam_fmt = <<>> THEN FormatA ELSE cam_fmt[1]
         IN  IF ~FindDevice(hw, vendor_id, product_id, serial)
             THEN [ret |-> Panic("find_device"), camera_format |-> Uninit.fmt]
             ELSE IF ~hw.openOk
                  THEN [ret |-> Panic("open"), camera_format |-> Uninit.fmt]
                  ELSE [ret |-> Ok, camera_format |-> camera_format_new]

\* no create() has been called yet
InitCreate ==
    /\ camera_format = Uninit.fmt
    /\ stream_handle_init = FALSE
    /\ active_stream_init = FALSE
    /\ stream_handle = Uninit
    /\ active_stream = Uninit
    /\ liveHandles = {}
    /\ liveStreams = {}
    /\ chan = <<>>
    /\ inflight = {}
    /\ nextId = 1
    /\ produced = 0
    /\ lastOp = "none"
    /\ lastRes = Ok

create(index, cam_fmt, hw) ==
    /\ lastOp = "none"
    /\ LET r == Create(index, cam_fmt, hw) IN
        /\ lastRes' = r.ret
        /\ camera_format' = r.camera_format
    /\ lastOp' = "create"
    /\ UNCHANGED <<stream_handle_init, active_stream_init, stream_handle,
                   active_stream, liveHandles, liveStreams, chan, inflight,
                   nextId, produced>>

\* a device exists: create() returned Ok
Created == lastOp # "none" /\ ~(lastOp = "create" /\ lastRes.kind # "Ok")

NextCreate ==
    \/ /\ lastOp = "none"
       /\ \E index \in 0..MaxDevices, cam_fmt \in {<<>>} \cup {<<f>> : f \in Formats},
             hw \in Hardware : create(index, cam_fmt, hw)
    \/ Created /\ Next

SpecCreate == InitCreate /\ [][NextCreate]_vars

\* ---------------------------------------------------------------- claims

\* C1: after any open_stream() call that returns Ok the device is Streaming:
\* a StreamHandle and an ActiveStream exist and is_stream_open() is true.
C1_OpenOkIsStreaming ==
    (lastOp = "open_stream" /\ lastRes.kind = "Ok") => (Streaming /\ is_stream_open)

\* C2: latest-wins hand-off: with a stream open and frames f1..fN buffered,
\* get_frame_raw() returns fN and leaves the channel empty, and a further
\* get_frame_raw() on the empty channel returns TooFast.
C2_LatestWins ==
    [][/\ (lastOp' = "get_frame_raw" /\ Streaming /\ chan # <<>>)
          => (lastRes' = OkFrame(chan[Len(chan)]) /\ chan' = <<>>)
       /\ (lastOp' = "get_frame_raw" /\ Streaming /\ chan = <<>>
             /\ lastOp = "get_frame_raw" /\ lastRes.kind = "Ok")
          => lastRes' = TooFast]_vars

\* C3: a live ActiveStream exists only while the StreamHandle it was started
\* from exists: no StreamHandle is destroyed before its ActiveStream.
C3_ActiveStreamWithinHandle ==
    \A s \in liveStreams : \E h \in liveHandles : h.id = s.id

\* C4: open_stream() called while a stream is open releases the prior
\* ActiveStream and the prior StreamHandle: nothing that was live before the
\* call is live after it.
C4_ReopenReleasesPrior ==
    [][(lastOp' = "open_stream" /\ Streaming)
          => /\ liveStreams \cap liveStreams' = {}
             /\ liveHandles \cap liveHandles' = {}]_vars

\* C5: teardown quiesces the producer: a frame is sent into the channel only
\* by the callback of a stream whose StreamHandle still exists, and no
\* callback invocation is in flight when a StreamHandle is destroyed.
C5_TeardownQuiesces ==
    [][/\ lastOp' = "frame_callback_send"
          => \A fr \in inflight \ inflight' : \E h \in liveHandles : h.id = fr.stream
       /\ \A h \in liveHandles \ liveHandles' : \A fr \in inflight : fr.stream # h.id]_vars

\* C6: stop_stream() returns Ok and leaves the device Idle: no StreamHandle,
\* no ActiveStream, both init flags false (so a second stop_stream() finds
\* and leaves the same state).
C6_StopStreamIdle ==
    lastOp = "stop_stream"
       => /\ lastRes = Ok
          /\ Idle
          /\ ~stream_handle_init
          /\ ~active_stream_init

\* C7: whenever no ActiveStream exists (before any open_stream(), or after
\* stop_stream() and before the next open_stream()), get_frame_raw() and
\* get_frame() return NotStreaming, whatever the channel holds.
C7_NotStreamingWithoutActiveStream ==
    [][(lastOp' \in {"get_frame_raw", "get_frame"} /\ ~ActiveStreamExists)
          => lastRes' = NotStreaming]_vars

\* C7 witness: get_frame_raw() was called after a stream had been opened and
\* stopped, with frames still buffered, and returned NotStreaming.
C7_Witness ==
    /\ lastOp = "get_frame_raw"
    /\ lastRes = NotStreaming
    /\ ~ActiveStreamExists
    /\ liveHandles = {}
    /\ nextId > 1
    /\ chan # <<>>

\* C8: if set_camera_format(new) is called while a StreamHandle exists and the
\* re-open fails (negotiation or stream start), the call returns an error and
\* camera_format is the format that was current before the call.
C8_FailedReopenRestoresFormat ==
    [][(lastOp' = "set_camera_format" /\ StreamHandleExists /\ lastRes'.why # "none")
          => /\ lastRes'.kind = "CouldntSetProperty"
             /\ camera_format' = camera_format]_vars

\* C8 witness: set_camera_format failed at stream start for a format that
\* differs from the one the device reports afterwards.
C8_Witness ==
    /\ lastOp = "set_camera_format"
    /\ lastRes.kind = "CouldntSetProperty"
    /\ lastRes.why = "start"
    /\ lastRes.value # camera_format

\* C9: a set_camera_format() that fails after the teardown leaves the device
\* Idle: neither a StreamHandle nor an ActiveStream exists.
C9_FailedReopenLeavesIdle ==
    (lastOp = "set_camera_format" /\ lastRes.kind = "CouldntSetProperty") => Idle

C12_NoPanic ==
    /\ lastOp = "create" => lastRes.kind \in {"Ok", "CouldntOpenDevice"}
    /\ lastOp = "open_stream" => lastRes.kind \in {"Ok", "CouldntOpenStream"}

\* C12 (amended): in create() a failure of context creation, device listing,
\* index lookup or description reading is returned as CouldntOpenDevice, while
\* a failure of the device lookup by ids and serial or of the device open
\* panics; in open_stream() a failure of the negotiation or of the stream
\* start is returned as CouldntOpenStream.
C12_ReturnedOrPanics ==
    /\ lastOp = "create" =>
          /\ lastRes.why \in {"context", "devices", "index", "description"}
                => lastRes.kind = "CouldntOpenDevice"
          /\ lastRes.why \in {"find_device", "open"} => lastRes.kind = "Panic"
          /\ lastRes.why = "none" => lastRes.kind = "Ok"
          /\ lastRes.why \in {"none", "context", "devices", "index", "description",
                               "find_device", "open"}
    /\ lastOp = "open_stream" =>
          /\ lastRes.why \in {"negotiation", "start"} => lastRes.kind = "CouldntOpenStream"
          /\ lastRes.why = "none" => lastRes.kind = "Ok"
          /\ lastRes.why \in {"none", "negotiation", "start"}

\* C12 witness: create() panicked on the device lookup.
C12_Witness ==
    /\ lastOp = "create"
    /\ lastRes = Panic("find_device")

\* the operations that are queries
QueryOps ==
    {"get_info", "get_camera_format", "get_resolution", "get_framerate",
     "get_frameformat", "is_stream_open", "get_frame", "get_frame_raw"}

\* C13: get_info, get_camera_format, get_resolution, get_framerate,
\* get_frameformat, is_stream_open, get_frame and get_frame_raw leave the
\* StreamHandle, the ActiveStream, both init flags and the camera format as
\* they were, whether they succeed or fail.
C13_QueriesKeepLifecycle ==
    [][lastOp' \in QueryOps
          => UNCHANGED <<camera_format, stream_handle_init, active_stream_init,
                         stream_handle, active_stream, liveHandles, liveStreams>>]_vars

\* C13 witness: get_frame() was called, and failed, on a device that holds a
\* StreamHandle and an ActiveStream.
C13_Witness ==
    /\ lastOp = "get_frame"
    /\ lastRes.kind # "Ok"
    /\ Streaming
    /\ stream_handle_init

\* C15: the channel has a single producer: at most one ActiveStream, hence
\* one capture callback, is live at any moment.
C15_SingleProducer == Cardinality(liveStreams) <= 1

\* C16: stream_handle_init is true exactly when the stream_handle storage
\* holds a live StreamHandle, active_stream_init is true exactly when the
\* active_stream storage holds a live ActiveStream, and no live value exists
\* outside the storage (none was overwritten or abandoned without a drop).
C16_FlagStorageAgreement ==
    /\ stream_handle_init <=> (stream_handle # Uninit /\ stream_handle \in liveHandles)
    /\ active_stream_init <=> (active_stream # Uninit /\ active_stream \in liveStreams)
    /\ liveHandles \subseteq {stream_handle}
    /\ liveStreams \subseteq {active_stream}

\* C18: set_camera_format(F) called while no StreamHandle exists returns Ok,
\* makes F the camera format, negotiates and starts nothing, and leaves the
\* lifecycle state and the channel as they were.
C18_IdleSetFormat ==
    [][\A F \in Formats :
          (/\ ~StreamHandleExists
           /\ \E negOk \in BOOLEAN, startOk \in BOOLEAN : set_camera_format(F, negOk, startOk))
          => /\ lastRes' = Ok
             /\ camera_format' = F
             /\ UNCHANGED <<stream_handle_init, active_stream_init, stream_handle,
                            active_stream, liveHandles, liveStreams, chan, inflight,
                            nextId>>]_vars

\* C18 witness: set_camera_format returned Ok on a device without a
\* StreamHandle, after an earlier session had left frames in the channel.
C18_Witness ==
    /\ lastOp = "set_camera_format"
    /\ lastRes = Ok
    /\ ~StreamHandleExists
    /\ ~stream_handle_init
    /\ chan # <<>>

\* C19: after an open_stream() that returns an error no ActiveStream exists
\* and is_stream_open() is false; a failed negotiation leaves no StreamHandle,
\* a failed stream start leaves only the newly negotiated StreamHandle, and
\* the camera format is as before the call.
C19_FailedOpen ==
    [][(lastOp' = "open_stream" /\ lastRes'.kind # "Ok")
          => /\ liveStreams' = {}
             /\ ~active_stream_init'
             /\ camera_format' = camera_format
             /\ lastRes'.why = "negotiation" => liveHandles' = {}
             /\ lastRes'.why = "start"
                   => (liveHandles' = {stream_handle'} /\ stream_handle' \notin liveHandles)]_vars

\* C20: once a stream is open and the hardware has delivered a frame into
\* the channel, a consumer that keeps polling eventually gets a frame from
\* get_frame_raw(), unless the stream is torn down first.
C20_EventuallyFrame ==
    (Streaming /\ chan # <<>>)
       ~> ((lastOp = "get_frame_raw" /\ lastRes.kind = "Ok") \/ ~Streaming)

====
